---- MODULE Spec2Model ----
(***************************************************************************)
(* River crossing puzzle (river_crossing.py): the RiverCrossingGame class, *)
(* its depth-first solver and the interactive play loop.                   *)
(***************************************************************************)
EXTENDS Integers, Sequences, FiniteSets, TLC

(* ----------------------------- bounds ---------------------------------- *)
\* the number of accepted moves a run may make (history grows without bound
\* in the program: the farmer may row back and forth for ever)
MaxMoves == 9

(* ----------------------------- Bank ------------------------------------ *)
LEFT == "LEFT"
RIGHT == "RIGHT"
Bank == {LEFT, RIGHT}

\* a slip in opposite: the two banks swapped in the conditional
opposite_stuck(self) == IF self = LEFT THEN LEFT ELSE RIGHT

opposite(self) == IF self = LEFT THEN RIGHT ELSE LEFT

(* ------------------------- values and inputs --------------------------- *)
\* Python's None as an item argument (no str: it differs from every str,
\* also from 'None'); "" is the empty str
NoneItem == "<None>"
\* the keys of state.positions in their insertion order (dict order)
Keys == <<"Farmer", "Fox", "Chicken", "Grain">>
Entities == {Keys[i] : i \in 1..Len(Keys)}
\* the arguments make_move is called with: None, the empty str, the four
\* keys and a str that is no key
ItemArgs == {NoneItem, "", "Farmer", "Fox", "Chicken", "Grain", "Wolf"}
\* truth value of an Optional[str] (None and "" are falsy)
Truthy(item) == item # NoneItem /\ item # ""

\* Optional[List[...]]: None, a list, or list(S) of a set S.  The order in
\* which list(S) enumerates S follows the hashes of its (str, Bank) members,
\* which differ from process to process: the value is kept as S, and
\* stands for any of the orderings ListsOf(S).
None == [isNone |-> TRUE, val |-> <<>>, elems |-> {}, anyOrder |-> FALSE]
Some(s) == [isNone |-> FALSE, val |-> s, elems |-> {}, anyOrder |-> FALSE]
ListOfSet(S) == [isNone |-> FALSE, val |-> <<>>, elems |-> S, anyOrder |-> TRUE]
\* len(r)
LenOf(r) == IF r.anyOrder THEN Cardinality(r.elems) ELSE Len(r.val)
\* truth value of an Optional[List]: None and [] are falsy
TruthyList(r) == ~r.isNone /\ LenOf(r) > 0

(* --------------------------- pure helpers ------------------------------ *)
RECURSIVE FilterKeys(_, _, _)
\* [item for item, pos in positions.items() if pos == bank], as a list
FilterKeys(positions, bank, i) ==
    IF i > Len(Keys) THEN <<>>
    ELSE IF positions[Keys[i]] = bank
         THEN <<Keys[i]>> \o FilterKeys(positions, bank, i + 1)
         ELSE FilterKeys(positions, bank, i + 1)

get_items_at_bank(positions, bank) == FilterKeys(positions, bank, 1)

InList(x, list) == \E i \in 1..Len(list) : list[i] = x

\* a slip in is_valid_state: the chicken-and-grain test is missing
is_valid_state_fox_only(positions) ==
    LET items_without_farmer ==
            get_items_at_bank(positions, opposite(positions["Farmer"]))
    IN ~(InList("Fox", items_without_farmer) /\ InList("Chicken", items_without_farmer))

is_valid_state(positions) ==
    LET farmer_bank == positions["Farmer"]
        opposite_bank == opposite(farmer_bank)
        items_without_farmer == get_items_at_bank(positions, opposite_bank)
    IN IF InList("Fox", items_without_farmer) /\ InList("Chicken", items_without_farmer)
       THEN FALSE
       ELSE IF InList("Chicken", items_without_farmer) /\ InList("Grain", items_without_farmer)
            THEN FALSE
            ELSE TRUE

\* a slip in is_won: any() for all()
is_won_any(positions) == \E k \in DOMAIN positions : positions[k] = RIGHT

is_won(positions) == \A k \in DOMAIN positions : positions[k] = RIGHT

\* a slip in _is_valid_state: the farmer's own bank is inspected
_is_valid_state_own_bank(positions) ==
    LET farmer_bank == positions["Farmer"]
        items_with == SelectSeq(get_items_at_bank(positions, farmer_bank),
                                LAMBDA item : item # "Farmer")
    IN ~(InList("Fox", items_with) /\ InList("Chicken", items_with))
       /\ ~(InList("Chicken", items_with) /\ InList("Grain", items_with))

\* the static helper the search uses
_is_valid_state(positions) ==
    LET farmer_bank == positions["Farmer"]
        opposite_bank == IF farmer_bank = LEFT THEN RIGHT ELSE LEFT
        items_without_farmer ==
            SelectSeq(get_items_at_bank(positions, opposite_bank),
                      LAMBDA item : item # "Farmer")
    IN IF InList("Fox", items_without_farmer) /\ InList("Chicken", items_without_farmer)
       THEN FALSE
       ELSE IF InList("Chicken", items_without_farmer) /\ InList("Grain", items_without_farmer)
            THEN FALSE
            ELSE TRUE

InitPositions == [k \in Entities |-> LEFT]

(* ------------------------------ state ---------------------------------- *)
VARIABLES
    positions,          \* self.state.positions
    history,            \* self.state.history
    move_count,         \* self.move_count
    _cached_solutions,  \* self._cached_solutions: None or a set of moves
    ret,                \* the last call of the class and what it returned
    status,             \* play(): where the loop is
    out,                \* play(): what the last command printed
    spc,                \* stepwise solve(): idle, running, done
    stack,              \* stepwise solve(): the frames of dfs
    visited,            \* stepwise solve(): the visited set
    sret,               \* stepwise solve(): value being returned by a frame
    ncalls              \* stepwise solve(): number of dfs calls made

game == <<positions, history, move_count>>
playVars == <<status, out>>
searchVars == <<spc, stack, visited, sret, ncalls>>
vars == <<positions, history, move_count, _cached_solutions, ret,
          status, out, spc, stack, visited, sret, ncalls>>

\* Optional[Set]: None or a set
NoneSet == [isNone |-> TRUE, val |-> {}]
SomeSet(S) == [isNone |-> FALSE, val |-> S]
TruthySet(c) == ~c.isNone /\ c.val # {}

\* the last call: its name, its argument (make_move), what it returned (ok
\* for make_move, sol for solve) and whether solve answered from the cache
RetInit == [op |-> "init", item |-> NoneItem, ok |-> FALSE, sol |-> None, cached |-> FALSE]
RetMove(item, ok) ==
    [op |-> "make_move", item |-> item, ok |-> ok, sol |-> None, cached |-> FALSE]
RetSolve(sol, cached) ==
    [op |-> "solve", item |-> NoneItem, ok |-> FALSE, sol |-> sol, cached |-> cached]

\* what play() printed for the last command; move is next_move of a hint
Out(msg) == [msg |-> msg, move |-> <<>>]
OutHint(next_move) == [msg |-> "hint", move |-> next_move]

(* ----------------------------- make_move ------------------------------- *)
\* a slip in make_move: a rejected move is counted too
make_move_counts_rejected(pos, hist, count, item) ==
    IF Truthy(item) /\ (item \notin DOMAIN pos \/ pos[item] # pos["Farmer"])
    THEN [ok |-> FALSE, positions |-> pos, history |-> hist, move_count |-> count + 1]
    ELSE LET next_bank == opposite(pos["Farmer"])
             pos1 == [pos EXCEPT !["Farmer"] = next_bank]
         IN [ok |-> TRUE,
             positions |-> IF Truthy(item) THEN [pos1 EXCEPT ![item] = next_bank] ELSE pos1,
             history |-> Append(hist, <<IF Truthy(item) THEN item ELSE "Farmer", next_bank>>),
             move_count |-> count + 1]

\* a slip in make_move: the item is recorded but stays on its bank
make_move_item_stays(pos, hist, count, item) ==
    IF Truthy(item) /\ (item \notin DOMAIN pos \/ pos[item] # pos["Farmer"])
    THEN [ok |-> FALSE, positions |-> pos, history |-> hist, move_count |-> count]
    ELSE LET next_bank == opposite(pos["Farmer"]) IN
         [ok |-> TRUE,
          positions |-> [pos EXCEPT !["Farmer"] = next_bank],
          history |-> Append(hist, <<IF Truthy(item) THEN item ELSE "Farmer", next_bank>>),
          move_count |-> count + 1]

\* the outcome of make_move(item) on (positions, history, move_count)
make_move(pos, hist, count, item) ==
    IF Truthy(item) /\ item \notin DOMAIN pos
    THEN [ok |-> FALSE, positions |-> pos, history |-> hist, move_count |-> count]
    ELSE LET current_bank == pos["Farmer"] IN
         IF Truthy(item) /\ pos[item] # current_bank
         THEN [ok |-> FALSE, positions |-> pos, history |-> hist, move_count |-> count]
         ELSE LET next_bank == opposite(current_bank)
                  pos1 == [pos EXCEPT !["Farmer"] = next_bank]
              IN IF Truthy(item)
                 THEN [ok |-> TRUE,
                       positions |-> [pos1 EXCEPT ![item] = next_bank],
                       history |-> Append(hist, <<item, next_bank>>),
                       move_count |-> count + 1]
                 ELSE [ok |-> TRUE,
                       positions |-> pos1,
                       history |-> Append(hist, <<"Farmer", next_bank>>),
                       move_count |-> count + 1]

(* ------------------------------- solve --------------------------------- *)
\* items_with_farmer of dfs
items_with_farmer(pos) ==
    SelectSeq(get_items_at_bank(pos, pos["Farmer"]), LAMBDA item : item # "Farmer")

\* a slip in dfs: the farmer-alone move is not tried
candidates_no_alone(pos) == items_with_farmer(pos)

\* a slip in dfs: the farmer-alone move is tried last
candidates_items_first(pos) == items_with_farmer(pos) \o <<"Farmer">>

\* the moves dfs tries, in order: the farmer alone, then each item
candidates(pos) == <<"Farmer">> \o items_with_farmer(pos)

\* a slip in dfs: next_state starts a new history instead of a copy
next_state_fresh_history(pos, hist, item) ==
    LET to == opposite(pos["Farmer"]) IN
    [positions |-> [[pos EXCEPT !["Farmer"] = to] EXCEPT ![item] = to],
     history |-> <<<<item, to>>>>]

\* next_state of dfs for one candidate: a copy of state with the move made
next_state(pos, hist, item) ==
    LET to == opposite(pos["Farmer"]) IN
    [positions |-> [[pos EXCEPT !["Farmer"] = to] EXCEPT ![item] = to],
     history |-> Append(hist, <<item, to>>)]

RECURSIVE dfs(_, _, _), dfs_try(_, _, _, _, _)
\* dfs(state, visited): the value returned and the visited set afterwards
dfs(pos, hist, vis) ==
    IF \A k \in DOMAIN pos : pos[k] = RIGHT
    THEN [result |-> Some(hist), visited |-> vis]
    ELSE IF pos \in vis
         THEN [result |-> None, visited |-> vis]
         ELSE dfs_try(pos, hist, vis \cup {pos}, candidates(pos), 1)

\* the body of dfs from candidate number i on
dfs_try(pos, hist, vis, cands, i) ==
    IF i > Len(cands)
    THEN [result |-> None, visited |-> vis]
    ELSE LET next == next_state(pos, hist, cands[i]) IN
         IF _is_valid_state(next.positions)
         THEN LET r == dfs(next.positions, next.history, vis) IN
              IF TruthyList(r.result)
              THEN r
              ELSE dfs_try(pos, hist, r.visited, cands, i + 1)
         ELSE dfs_try(pos, hist, vis, cands, i + 1)

\* set(solution)
SetOf(list) == {list[i] : i \in 1..Len(list)}

RECURSIVE ListsOf(_)
\* the lists list(S) may be: the elements of S once each, in any order
ListsOf(S) ==
    IF S = {} THEN {<<>>}
    ELSE UNION {{<<x>> \o p : p \in ListsOf(S \ {x})} : x \in S}

\* the lists an Optional[List] value that is not None may be
Lists(r) == IF r.anyOrder THEN ListsOf(r.elems) ELSE {r.val}

\* the values r[i] may have (i counts from 0); empty when r[i] raises
\* IndexError.  Every element of a set is at index i in some ordering.
ItemsAt(r, i) ==
    IF i >= LenOf(r) THEN {}
    ELSE IF r.anyOrder THEN r.elems ELSE {r.val[i + 1]}

\* a slip in solve: the cached solution is not consulted, every call searches
solve_recompute(pos, hist, cache) ==
    LET solution == dfs(pos, hist, {}).result IN
    [sol |-> solution,
     cache |-> IF TruthyList(solution) THEN SomeSet(SetOf(solution.val)) ELSE cache,
     cached |-> FALSE]

\* solve(): what it returns (sol), the cache it leaves, and whether the
\* answer came from the cache
solve(pos, hist, cache) ==
    IF TruthySet(cache)
    THEN [sol |-> ListOfSet(cache.val), cache |-> cache, cached |-> TRUE]
    ELSE LET solution == dfs(pos, hist, {}).result IN
         [sol |-> solution,
          cache |-> IF TruthyList(solution) THEN SomeSet(SetOf(solution.val)) ELSE cache,
          cached |-> FALSE]

(* --------------------- the class used through its API ------------------ *)
\* the accepted moves a run of the API may make
MaxApiMoves == 4

InitGame ==
    /\ positions = InitPositions
    /\ history = <<>>
    /\ move_count = 0
    /\ _cached_solutions = NoneSet
    /\ ret = RetInit

InitPlayIdle == status = "none" /\ out = Out("")
InitSearchIdle ==
    /\ spc = "idle"
    /\ stack = <<>>
    /\ visited = {}
    /\ sret = [active |-> FALSE, val |-> None]
    /\ ncalls = 0

\* game.make_move(item)
MakeMove(item) ==
    LET r == make_move(positions, history, move_count, item) IN
    /\ positions' = r.positions
    /\ history' = r.history
    /\ move_count' = r.move_count
    /\ ret' = RetMove(item, r.ok)
    /\ UNCHANGED _cached_solutions

\* a slip in solve: dfs works on self.state itself instead of copies, so
\* the live state ends where the search ended
SolveNoCopy ==
    LET o == solve(positions, history, _cached_solutions) IN
    /\ _cached_solutions' = o.cache
    /\ ret' = RetSolve(o.sol, o.cached)
    /\ IF ~o.cached /\ TruthyList(o.sol)
       THEN /\ positions' = [k \in DOMAIN positions |-> RIGHT]
            /\ history' = o.sol.val
            /\ UNCHANGED move_count
       ELSE UNCHANGED game

\* game.solve()
Solve ==
    LET o == solve(positions, history, _cached_solutions) IN
    /\ _cached_solutions' = o.cache
    /\ ret' = RetSolve(o.sol, o.cached)
    /\ UNCHANGED game

ApiMove == \E item \in ItemArgs :
    /\ Len(history) < MaxApiMoves
    /\ MakeMove(item)
    /\ UNCHANGED <<playVars, searchVars>>

ApiSolve == Solve /\ UNCHANGED <<playVars, searchVars>>

InitApi == InitGame /\ InitPlayIdle /\ InitSearchIdle
NextApi == ApiMove \/ ApiSolve
SpecApi == InitApi /\ [][NextApi]_vars

(* ----------------------------- play() ---------------------------------- *)
\* what input().strip().lower() may give: the commands, the item names, a
\* name that is no cargo item, a word that is no item, and the empty line
Commands == {"quit", "help", "hint", "none", "fox", "chicken", "grain",
             "farmer", "wolf", ""}

\* command.capitalize()
capitalize(command) ==
    CASE command = "fox" -> "Fox"
      [] command = "chicken" -> "Chicken"
      [] command = "grain" -> "Grain"
      [] command = "farmer" -> "Farmer"
      [] command = "wolf" -> "Wolf"
      [] command = "none" -> "None"
      [] command = "quit" -> "Quit"
      [] command = "help" -> "Help"
      [] command = "hint" -> "Hint"
      [] OTHER -> command

\* a slip in play: the loop reads a command without testing the state
AtPromptUnchecked == status = "playing"

\* the loop is at input(): the state was displayed, is valid and not won
AtPrompt ==
    /\ status = "playing"
    /\ is_valid_state(positions)
    /\ ~is_won(positions)

\* the loop finds the state invalid: Game Over
PlayGameOver ==
    /\ status = "playing"
    /\ ~is_valid_state(positions)
    /\ status' = "gameover"
    /\ out' = Out("game_over")
    /\ UNCHANGED <<game, _cached_solutions, ret, searchVars>>

\* the loop finds the puzzle solved
PlayWon ==
    /\ status = "playing"
    /\ is_valid_state(positions)
    /\ is_won(positions)
    /\ status' = "won"
    /\ out' = Out("won")
    /\ UNCHANGED <<game, _cached_solutions, ret, searchVars>>

PlayQuit ==
    /\ AtPrompt
    /\ status' = "quit"
    /\ out' = Out("quit")
    /\ UNCHANGED <<game, _cached_solutions, ret, searchVars>>

PlayHelp ==
    /\ AtPrompt
    /\ out' = Out("help")
    /\ UNCHANGED <<game, _cached_solutions, ret, status, searchVars>>

\* command 'hint': solution = self.solve(); solution[len(history)]
PlayHint ==
    /\ AtPrompt
    /\ Solve
    /\ LET solution == ret'.sol IN
       IF TruthyList(solution)
       THEN IF ItemsAt(solution, Len(history)) = {}
            THEN \* IndexError leaves play()
                 status' = "crashed" /\ out' = Out("IndexError")
            ELSE /\ \E next_move \in ItemsAt(solution, Len(history)) :
                        out' = OutHint(next_move)
                 /\ UNCHANGED status
       ELSE out' = Out("no_hint") /\ UNCHANGED status
    /\ UNCHANGED searchVars

\* any other command: a move
PlayMove == \E command \in Commands \ {"quit", "help", "hint"} :
    /\ AtPrompt
    /\ Len(history) < MaxMoves
    /\ LET item == IF command = "none" THEN NoneItem ELSE capitalize(command) IN
       IF Truthy(item) /\ item \notin {"Fox", "Chicken", "Grain", NoneItem}
       THEN /\ out' = Out("invalid_input")
            /\ UNCHANGED <<game, _cached_solutions, ret>>
       ELSE /\ MakeMove(item)
            /\ out' = Out(IF ret'.ok THEN "moved" ELSE "rejected")
    /\ UNCHANGED <<status, searchVars>>

Init ==
    /\ InitGame
    /\ status = "playing"
    /\ out = Out("welcome")
    /\ InitSearchIdle

Next ==
    \/ PlayGameOver
    \/ PlayWon
    \/ PlayQuit
    \/ PlayHelp
    \/ PlayHint
    \/ PlayMove

Spec == Init /\ [][Next]_vars

(* ---------------- solve() step by step: the calls of dfs --------------- *)
\* the accepted moves made before solve() is called
MaxStartMoves == 6

\* a frame of dfs: its state and the candidate it is at (0: at its entry)
Frame(pos, hist) == [positions |-> pos, history |-> hist, i |-> 0]
Top == stack[Len(stack)]
Pop == SubSeq(stack, 1, Len(stack) - 1)
SetTop(f) == [stack EXCEPT ![Len(stack)] = f]
Returning(v) == [active |-> TRUE, val |-> v]
NotReturning == [active |-> FALSE, val |-> None]

\* moves made before the call: the farmer alone or with a cargo item
StartItems == {NoneItem, "Fox", "Chicken", "Grain"}

SearchMove == \E item \in StartItems :
    /\ spc = "idle"
    /\ Len(history) < MaxStartMoves
    /\ MakeMove(item)
    /\ UNCHANGED <<playVars, searchVars>>

\* solve() with no cached solution: solution = dfs(self.state, set())
SolveBegin ==
    /\ spc = "idle"
    /\ ~TruthySet(_cached_solutions)
    /\ spc' = "running"
    /\ stack' = <<Frame(positions, history)>>
    /\ visited' = {}
    /\ sret' = NotReturning
    /\ ncalls' = 1
    /\ UNCHANGED <<game, _cached_solutions, ret, playVars>>

\* a slip in dfs: the visited test is missing
DfsEnterNoVisited ==
    /\ spc = "running" /\ ~sret.active /\ stack # <<>> /\ Top.i = 0
    /\ IF \A k \in DOMAIN Top.positions : Top.positions[k] = RIGHT
       THEN stack' = Pop /\ sret' = Returning(Some(Top.history)) /\ UNCHANGED visited
       ELSE /\ visited' = visited \cup {Top.positions}
            /\ stack' = SetTop([Top EXCEPT !.i = 1])
            /\ UNCHANGED sret
    /\ UNCHANGED <<game, _cached_solutions, ret, playVars, spc, ncalls>>

\* the entry of dfs: the goal test and the visited test
DfsEnter ==
    /\ spc = "running" /\ ~sret.active /\ stack # <<>> /\ Top.i = 0
    /\ IF \A k \in DOMAIN Top.positions : Top.positions[k] = RIGHT
       THEN stack' = Pop /\ sret' = Returning(Some(Top.history)) /\ UNCHANGED visited
       ELSE IF Top.positions \in visited
            THEN stack' = Pop /\ sret' = Returning(None) /\ UNCHANGED visited
            ELSE /\ visited' = visited \cup {Top.positions}
                 /\ stack' = SetTop([Top EXCEPT !.i = 1])
                 /\ UNCHANGED sret
    /\ UNCHANGED <<game, _cached_solutions, ret, playVars, spc, ncalls>>

\* dfs at candidate i: the farmer alone, then each item with the farmer
DfsTry ==
    /\ spc = "running" /\ ~sret.active /\ stack # <<>> /\ Top.i >= 1
    /\ LET cands == candidates(Top.positions) IN
       IF Top.i > Len(cands)
       THEN stack' = Pop /\ sret' = Returning(None) /\ UNCHANGED ncalls
       ELSE LET next == next_state(Top.positions, Top.history, cands[Top.i]) IN
            IF _is_valid_state(next.positions)
            THEN /\ stack' = Append(stack, Frame(next.positions, next.history))
                 /\ ncalls' = ncalls + 1
                 /\ UNCHANGED sret
            ELSE /\ stack' = SetTop([Top EXCEPT !.i = Top.i + 1])
                 /\ UNCHANGED <<sret, ncalls>>
    /\ UNCHANGED <<game, _cached_solutions, ret, playVars, spc, visited>>

\* a call of dfs made by the top frame has returned: if result: return result
DfsReturn ==
    /\ spc = "running" /\ sret.active /\ stack # <<>>
    /\ IF TruthyList(sret.val)
       THEN stack' = Pop /\ UNCHANGED sret
       ELSE stack' = SetTop([Top EXCEPT !.i = Top.i + 1]) /\ sret' = NotReturning
    /\ UNCHANGED <<game, _cached_solutions, ret, playVars, spc, visited, ncalls>>

\* the outermost dfs has returned: cache the solution and return it
SolveEnd ==
    /\ spc = "running" /\ sret.active /\ stack = <<>>
    /\ LET solution == sret.val IN
       /\ _cached_solutions' =
             IF TruthyList(solution) THEN SomeSet(SetOf(solution.val))
             ELSE _cached_solutions
       /\ ret' = RetSolve(solution, FALSE)
    /\ spc' = "done"
    /\ sret' = NotReturning
    /\ UNCHANGED <<game, playVars, stack, visited, ncalls>>

DfsStep == DfsEnter \/ DfsTry \/ DfsReturn \/ SolveEnd

InitSearch == InitGame /\ InitPlayIdle /\ InitSearchIdle
NextSearch == SearchMove \/ SolveBegin \/ DfsEnter \/ DfsTry \/ DfsReturn \/ SolveEnd
\* solve() is synchronous: once called it runs until it returns
SpecSearch == InitSearch /\ [][NextSearch]_vars /\ WF_vars(DfsStep)

(* ============================ properties =============================== *)
\* a forbidden pair is together on the bank opposite the farmer
ForbiddenOpposite(p) ==
    \/ p["Fox"] = p["Chicken"] /\ p["Fox"] # p["Farmer"]
    \/ p["Chicken"] = p["Grain"] /\ p["Chicken"] # p["Farmer"]

AllRight(p) == {e \in Entities : p[e] = LEFT} = {}

\* the move m = (item, bank) can be made in p: its item is with the farmer
Applicable(p, m) == m[1] \in Entities /\ p[m[1]] = p["Farmer"]

\* p after the farmer rows across with the item of m
Carry(p, m) ==
    LET to == IF p["Farmer"] = LEFT THEN RIGHT ELSE LEFT IN
    [e \in Entities |-> IF e = "Farmer" \/ e = m[1] THEN to ELSE p[e]]

RECURSIVE LegalRun(_, _), EndOf(_, _)
\* every move of l is applicable and leads to a legal configuration
LegalRun(p, l) ==
    \/ l = <<>>
    \/ /\ Applicable(p, Head(l))
       /\ ~ForbiddenOpposite(Carry(p, Head(l)))
       /\ LegalRun(Carry(p, Head(l)), Tail(l))

\* the configuration after the moves of l
EndOf(p, l) == IF l = <<>> THEN p ELSE EndOf(Carry(p, Head(l)), Tail(l))

\* C1: every sequence solve() returns replays from the initial
\* configuration as applicable moves through legal configurations only
C1_SolveReturnsLegalRun ==
    (ret.op = "solve" /\ ~ret.sol.isNone) =>
        \A l \in Lists(ret.sol) : LegalRun(InitPositions, l)

\* C2: the first solve() on a new game returns 7 moves that end with all
\* four entities on RIGHT
C2_FirstSolveSevenMoves ==
    (ret.op = "solve" /\ ~ret.cached /\ history = <<>>) =>
        /\ ~ret.sol.isNone
        /\ Len(ret.sol.val) = 7
        /\ AllRight(EndOf(InitPositions, ret.sol.val))

C2_Witness ==
    /\ ret.op = "solve" /\ ~ret.cached /\ history = <<>>
    /\ positions = InitPositions
    /\ Len(ret.sol.val) = 7

\* C3: a solve() that directly follows a solve() returns a sequence of the
\* same length, and both are legal runs from the initial configuration to
\* the goal
C3_RepeatedSolveSame ==
    [][(ret.op = "solve" /\ ret'.op = "solve" /\ ~ret.sol.isNone) =>
          /\ ~ret'.sol.isNone
          /\ LenOf(ret'.sol) = LenOf(ret.sol)
          /\ \A l \in Lists(ret.sol) \cup Lists(ret'.sol) :
                LegalRun(InitPositions, l) /\ AllRight(EndOf(InitPositions, l))]_vars

\* C4: no run of the play loop ends in an exception
C4_PlayNeverRaises == status # "crashed"

\* C5: the calls of dfs are bounded by the configurations it has expanded
\* (at most four calls per expanded configuration, at most 16 of those),
\* and every solve() that starts returns
C5_SolveTerminates ==
    /\ [](ncalls <= 1 + 4 * Cardinality(visited) /\ Cardinality(visited) <= 16)
    /\ (spc = "running") ~> (spc = "done")

C5_Witness ==
    /\ spc = "done"
    /\ ncalls > Cardinality(visited) + 1
    /\ Cardinality(visited) >= 8

\* C6: make_move with an unknown item, or with an item that is not on the
\* farmer's bank, returns False and leaves the game as it was
C6_BadMoveRejected ==
    [][(/\ ret'.op = "make_move"
        /\ ret'.item # NoneItem
        /\ \/ ret'.item \notin Entities
           \/ positions[ret'.item] # positions["Farmer"])
       => (~ret'.ok /\ game' = game)]_vars

\* C7: both legality predicates are false exactly when Fox and Chicken, or
\* Chicken and Grain, are together on the bank opposite the farmer
\* the configurations in hand: the live one, and those the frames of dfs
\* hold and test (the next_state of each of their candidates)
InHand ==
    {positions}
    \cup {stack[i].positions : i \in 1..Len(stack)}
    \cup UNION {{next_state(stack[i].positions, stack[i].history, c).positions :
                    c \in SetOf(candidates(stack[i].positions))} : i \in 1..Len(stack)}

C7_LegalIffNoPairOpposite ==
    \A p \in InHand :
        /\ is_valid_state(p) = ~ForbiddenOpposite(p)
        /\ _is_valid_state(p) = ~ForbiddenOpposite(p)

C7_Witness ==
    /\ positions["Farmer"] = RIGHT /\ positions["Fox"] = RIGHT
    /\ positions["Chicken"] = RIGHT /\ positions["Grain"] = LEFT
    /\ is_valid_state(positions)
    /\ \E p \in InHand : ~_is_valid_state(p) /\ ~is_valid_state(p)

\* C8: a solve() call leaves positions, history and move_count as they were
C8_SolveLeavesGame == [][ret'.op = "solve" => game' = game]_vars

C8_Witness ==
    /\ ret.op = "solve" /\ ~ret.cached /\ TruthyList(ret.sol)
    /\ Len(ret.sol.val) > Len(history)
    /\ ~_cached_solutions.isNone
    /\ move_count > 0

\* C9: is_won holds exactly when no entity is on LEFT, the play loop reports
\* a win only then, and a solution found by dfs ends with no entity on LEFT
C9_WonIffAllRight ==
    /\ is_won(positions) = AllRight(positions)
    /\ status = "won" => AllRight(positions)
    /\ (ret.op = "solve" /\ ~ret.cached /\ ~ret.sol.isNone) =>
           AllRight(EndOf(InitPositions, ret.sol.val))

C9_Witness == status = "won" /\ is_won(positions)

\* C10: opposite is an involution without a fixed point
C10_OppositeInvolution ==
    \A b \in Bank \cup {positions[e] : e \in Entities} :
        opposite(opposite(b)) = b /\ opposite(b) # b

C10_Witness ==
    /\ Len(history) >= 2
    /\ history[1][2] = RIGHT /\ history[2][2] = LEFT
    /\ positions["Farmer"] = LEFT

\* the move m = (item, bank) is a legal move in p: its item is the farmer or
\* is with the farmer, its bank is the bank across, and the configuration
\* it leads to is legal
LegalMoveIn(p, m) ==
    /\ Applicable(p, m)
    /\ m[2] # p["Farmer"]
    /\ ~ForbiddenOpposite(Carry(p, m))

\* C11: the move a hint request names is a legal move in the live
\* configuration
C11_HintIsLegalMove ==
    out.msg = "hint" => LegalMoveIn(positions, out.move)

\* C12: once a solution is cached the cache stays as it is, and every later
\* solve() answers from it with exactly its moves
C12_CacheIsFinal ==
    [][~_cached_solutions.isNone =>
          /\ _cached_solutions' = _cached_solutions
          /\ ret'.op = "solve" =>
                /\ ret'.cached
                /\ ret'.sol.anyOrder
                /\ ret'.sol.elems = _cached_solutions.val]_vars

C12_Witness ==
    /\ ret.op = "solve" /\ ret.cached
    /\ ret.sol.elems = _cached_solutions.val
    /\ move_count >= 2
    /\ \E i \in 1..Len(history) : history[i] \notin _cached_solutions.val

RECURSIVE LegalClosure(_)
\* the configurations that legal moves lead to from those of S
LegalClosure(S) ==
    LET T == S \cup UNION {{Carry(p, <<e, RIGHT>>) :
                              e \in {x \in Entities :
                                       /\ Applicable(p, <<x, RIGHT>>)
                                       /\ ~ForbiddenOpposite(Carry(p, <<x, RIGHT>>))}} :
                           p \in S}
    IN IF T = S THEN S ELSE LegalClosure(T)

\* some sequence of legal moves leads from p to the goal
GoalReachable(p) == \E q \in LegalClosure({p}) : AllRight(q)

\* C13: an uncached solve() returns None only when no legal moves lead to
\* the goal, and from a legal configuration that is not the goal it returns
\* a non-empty sequence that ends with all four entities on RIGHT
C13_SolveFindsGoal ==
    (ret.op = "solve" /\ ~ret.cached) =>
        /\ ret.sol.isNone => ~GoalReachable(positions)
        /\ (~ForbiddenOpposite(positions) /\ ~AllRight(positions)) =>
              /\ TruthyList(ret.sol)
              /\ AllRight(EndOf(InitPositions, ret.sol.val))

C13_Witness ==
    /\ spc = "done" /\ ret.op = "solve" /\ ~ret.cached
    /\ ~ForbiddenOpposite(positions) /\ ~AllRight(positions)
    /\ positions # InitPositions
    /\ Len(ret.sol.val) > Len(history)

\* C14: is_valid_state and _is_valid_state agree on each of the 16
\* configurations, among them the live one and those dfs holds and tests
C14_LegalityChecksAgree ==
    \A p \in InHand \cup [Entities -> Bank] :
        is_valid_state(p) = _is_valid_state(p)

C14_Witness ==
    /\ spc = "running"
    /\ positions["Chicken"] = positions["Grain"]
    /\ positions["Fox"] = positions["Farmer"]
    /\ ~is_valid_state(positions) /\ ~_is_valid_state(positions)
    /\ \E p \in InHand : is_valid_state(p) /\ _is_valid_state(p)

IsPrefix(h, l) == Len(h) <= Len(l) /\ SubSeq(l, 1, Len(h)) = h

RECURSIVE ApplicableRun(_, _)
\* every move of l is applicable when its turn comes
ApplicableRun(p, l) ==
    \/ l = <<>>
    \/ Applicable(p, Head(l)) /\ ApplicableRun(Carry(p, Head(l)), Tail(l))

\* C15: an uncached solve() returns a sequence that starts with the live
\* history; unless the live configuration is the goal it is longer, and its
\* further moves are applicable from the live configuration and end in the
\* goal
C15_SolutionExtendsHistory ==
    (ret.op = "solve" /\ ~ret.cached) =>
        /\ ~ret.sol.isNone
        /\ IsPrefix(history, ret.sol.val)
        /\ ~AllRight(positions) =>
              LET rest == SubSeq(ret.sol.val, Len(history) + 1, Len(ret.sol.val)) IN
              /\ Len(ret.sol.val) > Len(history)
              /\ ApplicableRun(positions, rest)
              /\ AllRight(EndOf(positions, rest))

C15_Witness ==
    /\ ret.op = "solve" /\ ~ret.cached
    /\ Len(history) >= 2
    /\ ~AllRight(positions)
    /\ IsPrefix(history, ret.sol.val)
    /\ Len(ret.sol.val) > Len(history)

\* C16: a make_move that succeeds flips the farmer's bank, takes the named
\* item along, leaves every other entity where it was, appends the one entry
\* (item or 'Farmer', new bank of the farmer) and counts the move; and
\* make_move succeeds whenever its item is None or an entity with the farmer
C16_MoveEffect ==
    [][ret'.op = "make_move" =>
          LET item == ret'.item
              to == IF positions["Farmer"] = LEFT THEN RIGHT ELSE LEFT
          IN /\ (item = NoneItem
                 \/ (item \in Entities /\ positions[item] = positions["Farmer"]))
                => ret'.ok
             /\ ret'.ok =>
                  /\ positions'["Farmer"] = to
                  /\ item \in Entities => positions'[item] = to
                  /\ \A e \in Entities \ {"Farmer", item} : positions'[e] = positions[e]
                  /\ history' = history \o
                        << <<IF item \in Entities THEN item ELSE "Farmer", to>> >>
                  /\ move_count' = move_count + 1]_vars

C16_Witness ==
    /\ ret.op = "make_move" /\ ret.ok /\ ret.item = "Chicken"
    /\ Len(history) >= 3
    /\ history[Len(history)] = <<"Chicken", positions["Farmer"]>>
    /\ positions["Fox"] # positions["Farmer"]

\* the moves open in p, in the order dfs is to try them: the farmer alone,
\* then Fox, Chicken, Grain as far as they are with the farmer
TryOrder(p) ==
    <<"Farmer">> \o SelectSeq(<<"Fox", "Chicken", "Grain">>,
                               LAMBDA e : p[e] = p["Farmer"])

\* the solution of the new game
FirstSolution ==
    << <<"Chicken", RIGHT>>, <<"Farmer", LEFT>>, <<"Fox", RIGHT>>,
       <<"Chicken", LEFT>>, <<"Grain", RIGHT>>, <<"Farmer", LEFT>>,
       <<"Chicken", RIGHT>> >>

\* C17: every frame of dfs goes through its moves in the order farmer alone,
\* Fox, Chicken, Grain (the frame above it holds the move it is at), no call
\* is made once a call has returned a solution, and the first solve() of a
\* new game returns FirstSolution
C17_FixedOrderFirstSolution ==
    /\ [](/\ \A k \in 1..Len(stack) :
               /\ stack[k].i <= Len(TryOrder(stack[k].positions)) + 1
               /\ k < Len(stack) =>
                    /\ stack[k].i \in 1..Len(TryOrder(stack[k].positions))
                    /\ stack[k + 1].positions =
                          Carry(stack[k].positions,
                                <<TryOrder(stack[k].positions)[stack[k].i], RIGHT>>)
                    /\ stack[k + 1].history = Append(stack[k].history,
                          <<TryOrder(stack[k].positions)[stack[k].i],
                            stack[k + 1].positions["Farmer"]>>)
          /\ (spc = "done" /\ history = <<>>) => ret.sol.val = FirstSolution)
    /\ [][(sret.active /\ TruthyList(sret.val)) =>
             (ncalls' = ncalls /\ Len(stack') <= Len(stack))]_vars

C17_Witness ==
    /\ spc = "done" /\ history = <<>>
    /\ ret.sol.val = FirstSolution
    /\ ncalls > Len(FirstSolution) + 1

OddAtLeast7(n) == n % 2 = 1 /\ n >= 7

\* C18: a win is reported only after an odd number of at least 7 moves, the
\* goal is reached through legal configurations only by such a number of
\* moves, and a solution dfs finds from the initial configuration has such a
\* length
C18_WinOddAtLeast7 ==
    /\ status = "won" => OddAtLeast7(move_count)
    /\ (AllRight(positions) /\ LegalRun(InitPositions, history)) =>
          OddAtLeast7(Len(history))
    /\ (ret.op = "solve" /\ ~ret.cached /\ ~ret.sol.isNone
        /\ positions = InitPositions) => OddAtLeast7(Len(ret.sol.val))

C18_Witness ==
    /\ status = "won"
    /\ move_count = 9
    /\ LegalRun(InitPositions, history)

\* C19: the play loop changes the game, the cache or the last call only at
\* the prompt, in a legal configuration that is not won; from an illegal or
\* won configuration its one step is to end, changing nothing else
C19_NoCommandAfterEnd ==
    [][/\ (game' # game \/ _cached_solutions' # _cached_solutions \/ ret' # ret) =>
             /\ status = "playing"
             /\ ~ForbiddenOpposite(positions)
             /\ ~AllRight(positions)
       /\ (ForbiddenOpposite(positions) \/ AllRight(positions)) =>
             /\ status = "playing"
             /\ status' = IF ForbiddenOpposite(positions) THEN "gameover" ELSE "won"
             /\ game' = game
       /\ status # "playing" => status' = status]_vars

C19_Witness ==
    /\ status = "gameover"
    /\ ForbiddenOpposite(positions)
    /\ move_count >= 3
    /\ ~_cached_solutions.isNone

\* C20: move_count is the length of history, the farmer is on LEFT exactly
\* when it is even, and the last entry of history names the farmer's bank
C20_CountIsHistoryLength ==
    /\ move_count = Len(history)
    /\ (positions["Farmer"] = LEFT) = (move_count % 2 = 0)
    /\ history # <<>> => history[Len(history)][2] = positions["Farmer"]

C20_Witness ==
    /\ ret.op = "make_move" /\ ~ret.ok
    /\ move_count = 3
    /\ ~_cached_solutions.isNone

====
